---- MODULE Spec2Model ----
(***************************************************************************)
(* Signal lifecycle of the NIFTY / BANKNIFTY signal scripts: detection of  *)
(* a BUY/SELL signal from the indicator values of the last two closed      *)
(* candles, the signal_log.csv ledger, and the resolution of PENDING rows  *)
(* against fetched candles.                                                *)
(*                                                                         *)
(* Prices and indicator values are exact decimals counted in ticks of      *)
(* 0.0001; 100 ticks are one paisa (0.01), the precision of round(x, 2).   *)
(* Time is counted in candle periods.                                      *)
(***************************************************************************)
EXTENDS Integers, Sequences, FiniteSets, TLC

\* ------------------------------------------------------------------ bounds
\* most rows the ledger holds
MaxRows == 2
\* most candles one fetch returns
MaxWin == 2
\* last value of the wall clock (in candle periods)
MaxClock == 1

\* ------------------------------------------------------------- numbers
\* np.nan: no price or indicator value of the model is negative
NaN == -1
\* ticks in 0.01, the quantum of round(x, 2)
Cent == 100
\* ATR_SL_MULT = 1.2 and ATR_TGT_MULT = 2.5, in tenths
ATR_SL_MULT == 12
ATR_TGT_MULT == 25
Tenth == 10
ADX_THRESHOLD == 25
\* VOLUME_MULT = 1.2, in tenths
VOLUME_MULT == 12

\* float comparisons: every comparison with NaN is false
FGt(a, b) == a # NaN /\ b # NaN /\ a > b
FGe(a, b) == a # NaN /\ b # NaN /\ a >= b
FLt(a, b) == a # NaN /\ b # NaN /\ a < b
FLe(a, b) == a # NaN /\ b # NaN /\ a <= b

\* round(x, 2) of a non-negative x: the nearest multiple of 0.01.  On a decimal
\* tie the float that stands for x lies on either side, so both neighbours
\* are possible results.
round2(x) ==
    LET lo == (x \div Cent) * Cent
        r  == x % Cent
    IN  IF 2 * r < Cent THEN {lo}
        ELSE IF 2 * r > Cent THEN {lo + Cent}
        ELSE {lo, lo + Cent}

\* round(x * pct / 100, 2) for a percentage pct: x * 1.01 is round2pct(x, 101)
round2pct(x, pct) ==
    LET m  == 100 * Cent
        n  == x * pct
        lo == (n \div m) * Cent
        r  == n % m
    IN  IF 2 * r < m THEN {lo}
        ELSE IF 2 * r > m THEN {lo + Cent}
        ELSE {lo, lo + Cent}

\* ------------------------------------------------------------ detectors
\* what a detector returns when it returns None
NoSignal == [direction |-> "NONE", entry |-> 0, SL |-> 0, TGT |-> 0]

Signal(d, e, s, t) == [direction |-> d, entry |-> e, SL |-> s, TGT |-> t]

\* intraday_buy_cond with a strict test on the previous candle
intraday_buy_cond_strict_prev(i) ==
    /\ FLt(i.pf, i.ps) /\ FGt(i.lf, i.ls)
    /\ FGt(i.price, i.vwap)
    /\ FGe(IF i.adx = NaN THEN 0 ELSE i.adx, ADX_THRESHOLD)
    /\ FGt(i.vol_now * Tenth, VOLUME_MULT * (IF i.vol_avg = NaN THEN 0 ELSE i.vol_avg))
    /\ FLt(i.rsi, 70)

\* BUY condition of intraday_check on the rows prev = iloc[-3], latest = iloc[-2]:
\* fast = EMA20, slow = EMA50
intraday_buy_cond(i) ==
    /\ FLe(i.pf, i.ps) /\ FGt(i.lf, i.ls)
    /\ FGt(i.price, i.vwap)
    /\ FGe(IF i.adx = NaN THEN 0 ELSE i.adx, ADX_THRESHOLD)
    /\ FGt(i.vol_now * Tenth, VOLUME_MULT * (IF i.vol_avg = NaN THEN 0 ELSE i.vol_avg))
    /\ FLt(i.rsi, 70)

intraday_sell_cond(i) ==
    /\ FGe(i.pf, i.ps) /\ FLt(i.lf, i.ls)
    /\ FLt(i.price, i.vwap)
    /\ FGe(IF i.adx = NaN THEN 0 ELSE i.adx, ADX_THRESHOLD)
    /\ FGt(i.vol_now * Tenth, VOLUME_MULT * (IF i.vol_avg = NaN THEN 0 ELSE i.vol_avg))
    /\ FGt(i.rsi, 30)

\* atr_sized without the test that the ATR is defined and positive
atr_sized_unguarded(buy_cond, sell_cond, i) ==
    IF buy_cond
    THEN Signal("BUY", i.price,
                i.price - (ATR_SL_MULT * i.atr) \div Tenth,
                i.price + (ATR_TGT_MULT * i.atr) \div Tenth)
    ELSE IF sell_cond
    THEN Signal("SELL", i.price,
                i.price + (ATR_SL_MULT * i.atr) \div Tenth,
                i.price - (ATR_TGT_MULT * i.atr) \div Tenth)
    ELSE NoSignal

\* ATR sizing shared by intraday_check and swing_check
atr_sized(buy_cond, sell_cond, i) ==
    IF buy_cond /\ i.atr # NaN /\ i.atr > 0
    THEN Signal("BUY", i.price,
                i.price - (ATR_SL_MULT * i.atr) \div Tenth,
                i.price + (ATR_TGT_MULT * i.atr) \div Tenth)
    ELSE IF sell_cond /\ i.atr # NaN /\ i.atr > 0
    THEN Signal("SELL", i.price,
                i.price + (ATR_SL_MULT * i.atr) \div Tenth,
                i.price - (ATR_TGT_MULT * i.atr) \div Tenth)
    ELSE NoSignal

intraday_check(i) == atr_sized(intraday_buy_cond(i), intraday_sell_cond(i), i)

\* swing_check: fast = EMA50, slow = EMA200, no VWAP filter
swing_buy_cond(i) ==
    /\ FLe(i.pf, i.ps) /\ FGt(i.lf, i.ls)
    /\ FGe(IF i.adx = NaN THEN 0 ELSE i.adx, ADX_THRESHOLD)
    /\ FGt(i.vol_now * Tenth, VOLUME_MULT * (IF i.vol_avg = NaN THEN 0 ELSE i.vol_avg))
    /\ FLt(i.rsi, 55)
    /\ FGt(i.price, i.ls)

swing_sell_cond(i) ==
    /\ FGe(i.pf, i.ps) /\ FLt(i.lf, i.ls)
    /\ FGe(IF i.adx = NaN THEN 0 ELSE i.adx, ADX_THRESHOLD)
    /\ FGt(i.vol_now * Tenth, VOLUME_MULT * (IF i.vol_avg = NaN THEN 0 ELSE i.vol_avg))
    /\ FGt(i.rsi, 45)
    /\ FLt(i.price, i.ls)

swing_check(i) == atr_sized(swing_buy_cond(i), swing_sell_cond(i), i)

\* intraday_rule of nifty_banknifty_signals.py: only the crossover, the VWAP
\* bias and ADX decide; "vwap and ..." is false for a NaN (None) or zero VWAP
intraday_rule(i) ==
    LET buy_cond  == FLe(i.pf, i.ps) /\ FGt(i.lf, i.ls)
                     /\ i.vwap # NaN /\ i.vwap # 0 /\ FGt(i.price, i.vwap)
                     /\ FGe(IF i.adx = NaN THEN 0 ELSE i.adx, ADX_THRESHOLD)
        sell_cond == FGe(i.pf, i.ps) /\ FLt(i.lf, i.ls)
                     /\ i.vwap # NaN /\ i.vwap # 0 /\ FLt(i.price, i.vwap)
                     /\ FGe(IF i.adx = NaN THEN 0 ELSE i.adx, ADX_THRESHOLD)
    IN  atr_sized(buy_cond, sell_cond, i)

swing_rule(i) ==
    LET buy_cond  == FLe(i.pf, i.ps) /\ FGt(i.lf, i.ls)
                     /\ FGe(IF i.adx = NaN THEN 0 ELSE i.adx, ADX_THRESHOLD)
        sell_cond == FGe(i.pf, i.ps) /\ FLt(i.lf, i.ls)
                     /\ FGe(IF i.adx = NaN THEN 0 ELSE i.adx, ADX_THRESHOLD)
    IN  atr_sized(buy_cond, sell_cond, i)

\* get_signal of nifty_banknifty_signals_v7.py on last = iloc[-1]: the results
\* it can return, one for each way the roundings can fall.  INTRADAY sizes
\* target and stop at 1 %, SWING at 3 %, for BUY and for SELL alike.
get_signal_v7(i, trade_type) ==
    LET up   == IF trade_type = "INTRADAY" THEN 101 ELSE 103
        down == IF trade_type = "INTRADAY" THEN 99 ELSE 97
        fitted(d) == UNION {{Signal(d, price, stoploss, target) :
                                target \in round2pct(price, up),
                                stoploss \in round2pct(price, down)} :
                            price \in round2(i.price)}
    IN  IF i.price = NaN THEN {NoSignal}
        ELSE IF FGt(i.lf, i.ls) /\ FGt(i.rsi, 48) /\ FGt(i.macd, i.macd_sig)
        THEN fitted("BUY")
        ELSE IF FLt(i.lf, i.ls) /\ FLt(i.rsi, 52) /\ FLt(i.macd, i.macd_sig)
        THEN fitted("SELL")
        ELSE {NoSignal}

\* RSI thresholds of nifty_banknifty_signals_rsi_v8.py
RSI_BUY_THRESHOLD == 45
RSI_SELL_THRESHOLD == 55

rsi_buy_cond(i) == FLe(i.prsi, RSI_BUY_THRESHOLD) /\ FGt(i.rsi, RSI_BUY_THRESHOLD)
rsi_sell_cond(i) == FGe(i.prsi, RSI_SELL_THRESHOLD) /\ FLt(i.rsi, RSI_SELL_THRESHOLD)

\* get_rsi_signal on prev = iloc[-2], latest = iloc[-1]: the results it can return
get_rsi_signal(i) ==
    IF i.price = NaN THEN {NoSignal}
    ELSE IF rsi_buy_cond(i)
    THEN {Signal("BUY", i.price, stop_loss, target) :
             target \in round2pct(i.price, 101), stop_loss \in round2pct(i.price, 99)}
    ELSE IF rsi_sell_cond(i)
    THEN {Signal("SELL", i.price, stop_loss, target) :
             target \in round2pct(i.price, 99), stop_loss \in round2pct(i.price, 101)}
    ELSE {NoSignal}

\* the detector a script runs for a strategy
detect(script, strategy, i) ==
    IF script = "final"
    THEN IF strategy = "INTRADAY" THEN intraday_check(i) ELSE swing_check(i)
    ELSE IF strategy = "INTRADAY" THEN intraday_rule(i) ELSE swing_rule(i)

\* ----------------------------------------------------------- resolution scan
\* a fetched candle: only High and Low are read
Candle(h, l) == [high |-> h, low |-> l]

\* scan_hit without the break: the last candle that touches a bound decides
RECURSIVE scan_hit_no_break(_, _, _, _)
scan_hit_no_break(direction, sl, tgt, w) ==
    IF w = << >> THEN "NONE"
    ELSE LET candle == Head(w)
             later  == scan_hit_no_break(direction, sl, tgt, Tail(w))
         IN  IF later # "NONE" THEN later
             ELSE IF direction = "BUY"
             THEN IF FGe(candle.high, tgt) THEN "TGT"
                  ELSE IF FLe(candle.low, sl) THEN "SL" ELSE "NONE"
             ELSE IF FLe(candle.low, tgt) THEN "TGT"
                  ELSE IF FGe(candle.high, sl) THEN "SL" ELSE "NONE"

\* the candle loop of update_pending_signals: the first candle, in the order of
\* the fetched frame, that touches a bound decides; "NONE" when none does
RECURSIVE scan_hit(_, _, _, _)
scan_hit(direction, sl, tgt, w) ==
    IF w = << >> THEN "NONE"
    ELSE LET candle == Head(w) IN
         IF direction = "BUY"
         THEN IF FGe(candle.high, tgt) THEN "TGT"
              ELSE IF FLe(candle.low, sl) THEN "SL"
              ELSE scan_hit(direction, sl, tgt, Tail(w))
         ELSE IF FLe(candle.low, tgt) THEN "TGT"
              ELSE IF FGe(candle.high, sl) THEN "SL"
              ELSE scan_hit(direction, sl, tgt, Tail(w))

\* a candle reaches the target, or the stop, of a ledger row
TouchesTGT(row, c) ==
    IF row.direction = "BUY"
    THEN c.high # NaN /\ c.high >= row.TGT
    ELSE c.low # NaN /\ c.low <= row.TGT

TouchesSL(row, c) ==
    IF row.direction = "BUY"
    THEN c.low # NaN /\ c.low <= row.SL
    ELSE c.high # NaN /\ c.high >= row.SL

Touches(row, c) == TouchesTGT(row, c) \/ TouchesSL(row, c)

\* ------------------------------------------------------------------ inputs
Procs == {"p1", "p2"}
Scripts == {"final", "bn"}
\* the symbol lists, cut to a head of NIFTY50 and the bank it shares with BANKNIFTY
NIFTY50 == <<"RELIANCE.NS", "HDFCBANK.NS">>
BANKNIFTY == <<"HDFCBANK.NS">>

\* the concatenated lists as they are, a shared symbol twice
keep_duplicates(l) == l

\* list(dict.fromkeys(l)): the first occurrence of each symbol, in order
RECURSIVE fromkeys(_)
fromkeys(l) ==
    IF l = << >> THEN << >>
    ELSE LET front == fromkeys(SubSeq(l, 1, Len(l) - 1))
             x     == l[Len(l)]
         IN  IF \E j \in 1..Len(front) : front[j] = x THEN front
             ELSE Append(front, x)

SYMBOLS == fromkeys(NIFTY50 \o BANKNIFTY)

\* prices a candle's High and Low take (11.00, 12.50 / 7.50, 10.00)
Highs == {110000, 125000}
Lows == {75000, 100000}
\* a candle with a missing High and Low is kept by dropna(how="all")
Candles == {Candle(h, l) : h \in Highs, l \in Lows} \cup {Candle(NaN, NaN)}

\* what fetch_ohlc returns: an empty frame (no data, or a download error) or
\* the latest candles, oldest first, the last one being the candle of "now"
Windows == UNION {[1..n -> Candles] : n \in 0..MaxWin}

\* indicator values of the rows prev and latest of a fetched frame
IndRows(E, P, V, A, X, N, M, Q, R, C) ==
    [pf : E, ps : E, lf : E, ls : E, price : P, vwap : V, atr : A, adx : X,
     vol_now : N, vol_avg : M, prsi : Q, rsi : R, macd : C, macd_sig : C]

\* the frames the scan of the universe meets in the ledger model
LedgerInputs ==
    IndRows({90000, 110000}, {100030}, {90000, 110000}, {10000}, {30},
            {20}, {10}, {50}, {50}, {1})

\* the frames the detectors are tried on by themselves: the EMA rules with
\* missing and degenerate indicator values, the RSI crossover around its
\* thresholds, and the MACD rule
DetectInputs ==
    IndRows({90000, 110000, NaN}, {100030}, {90000, 110000, NaN},
            {NaN, 0, 10, 10000}, {20, 30, NaN}, {20}, {10, NaN}, {50}, {50, NaN}, {1})
    \cup IndRows({100000}, {100030}, {90000}, {10000}, {30}, {20}, {10},
                 {40, 45, 50, 55, 60, NaN}, {40, 45, 50, 55, 60, NaN}, {1})
    \cup IndRows({90000, 110000}, {100030, 150}, {90000}, {10000}, {30}, {20}, {10},
                 {50}, {40, 50, 60}, {1, 2})

\* ----------------------------------------------------------- market hours
MARKET_OPEN_HOUR == 9
MARKET_OPEN_MIN == 15
MARKET_CLOSE_HOUR == 15
MARKET_CLOSE_MIN == 30
\* Asia/Kolkata is 5 h 30 min ahead of UTC, in seconds
IST_OFFSET == 19800
DaySeconds == 86400

\* an instant of the week: the weekday (Monday = 0) and the second of the day
At(wd, h, m, sec) == [wd |-> wd, s |-> (h * 60 + m) * 60 + sec]

\* now_utc.astimezone(MARKET_TZ)
astimezone(now_utc) ==
    LET t == now_utc.s + IST_OFFSET IN
    IF t >= DaySeconds THEN [wd |-> (now_utc.wd + 1) % 7, s |-> t - DaySeconds]
    ELSE [wd |-> now_utc.wd, s |-> t]

\* is_market_open with the weekday test left out
is_market_open_any_day(now_utc) ==
    LET now_ist    == astimezone(now_utc)
        open_time  == At(now_ist.wd, MARKET_OPEN_HOUR, MARKET_OPEN_MIN, 0)
        close_time == At(now_ist.wd, MARKET_CLOSE_HOUR, MARKET_CLOSE_MIN, 0)
    IN  open_time.s <= now_ist.s /\ now_ist.s <= close_time.s

is_market_open(now_utc) ==
    LET now_ist    == astimezone(now_utc)
        open_time  == At(now_ist.wd, MARKET_OPEN_HOUR, MARKET_OPEN_MIN, 0)
        close_time == At(now_ist.wd, MARKET_CLOSE_HOUR, MARKET_CLOSE_MIN, 0)
    IN  IF now_ist.wd >= 5 THEN FALSE
        ELSE open_time.s <= now_ist.s /\ now_ist.s <= close_time.s

\* instants in UTC at which main is started: a Friday morning in market hours
\* and a Saturday
RunTimes == {At(4, 3, 45, 0), At(5, 5, 0, 0)}

\* the edges of the session on a Friday (09:14:59, 09:15:00, 15:30:00 and
\* 15:30:01 IST), a Saturday and a Sunday at 10:30 IST, and the Sunday
\* evening in UTC that is Monday 00:30 IST
GateTimes ==
    {At(4, 3, 44, 59), At(4, 3, 45, 0), At(4, 10, 0, 0), At(4, 10, 0, 1),
     At(5, 5, 0, 0), At(6, 5, 0, 0), At(6, 19, 0, 0)}

\* ---------------------------------------------------------------- summaries
\* round(wins / total * 100, 2), in hundredths of a percent.  wins / total * 100
\* lies half way between two such values only if 32 divides total.
pct2(wins, total) ==
    LET n  == wins * 10000
        lo == n \div total
        r  == n % total
    IN  IF 2 * r < total THEN lo
        ELSE IF 2 * r > total THEN lo + 1
        ELSE IF lo % 2 = 0 THEN lo ELSE lo + 1

Summary(accuracy, total, achieved, failed, pending) ==
    [accuracy |-> accuracy, total |-> total, achieved |-> achieved,
     failed |-> failed, pending |-> pending]

\* compute_accuracy of nifty50_signals_final.py
compute_accuracy(df, exists) ==
    IF ~exists THEN Summary(0, 0, 0, 0, 0)
    ELSE LET total    == Len(df)
             achieved == Len(SelectSeq(df, LAMBDA row : row.status = "TGT"))
             failed   == Len(SelectSeq(df, LAMBDA row : row.status = "SL"))
             pending  == total - achieved - failed
         IN  Summary(IF total > 0 THEN pct2(achieved, total) ELSE 0,
                     total, achieved, failed, pending)

\* compute_overall_accuracy_summary of nifty_banknifty_signals.py
compute_overall_accuracy_summary(df, exists) ==
    IF ~exists THEN Summary(0, 0, 0, 0, 0)
    ELSE LET total == Len(df) IN
         IF total = 0 THEN Summary(0, 0, 0, 0, 0)
         ELSE LET wins    == Len(SelectSeq(df, LAMBDA row : row.status = "TGT"))
                  losses  == Len(SelectSeq(df, LAMBDA row : row.status = "SL"))
                  pending == Len(SelectSeq(df, LAMBDA row : row.status = "PENDING"))
              IN  Summary(IF total > 0 THEN pct2(wins, total) ELSE 0,
                          total, wins, losses, pending)

\* what main sends by Telegram at its end
NoMessage == [kind |-> "none", signals |-> 0, summary |-> Summary(0, 0, 0, 0, 0)]

Message(kind, signals, summary) == [kind |-> kind, signals |-> signals, summary |-> summary]

\* ------------------------------------------------------------------- state
VARIABLES
    csv_exists,   \* os.path.exists(CSV_FILE)
    csv,          \* the rows of signal_log.csv
    clock,        \* the wall clock
    proc,         \* the local state of each invocation of main
    df_ohlc,      \* the frame of the latest fetch of update_pending_signals
    n_recorded,   \* record_signal calls that have returned
    det,          \* a detector tried by itself: its frame, its result, the row recorded
    logs,         \* the rows of the log files the v6, v7 and v8 scripts write
    stat          \* a statistics function tried by itself: its arguments and result

vars == <<csv_exists, csv, clock, proc, df_ohlc, n_recorded, det, logs, stat>>

\* the log files by name
LogFiles == {"signal_log.csv", "signal_log_v7.csv", "signal_log_v8.csv"}

NoLogs == [f \in LogFiles |-> << >>]

NoStat == [fn |-> "none", symbol |-> "", direction |-> "", strategy |-> "",
           winpct |-> NaN, messages |-> << >>,
           accuracy |-> 0, total |-> 0, achieved |-> 0, failed |-> 0, pending |-> 0]

NoFetch == [proc |-> "", idx |-> 0, candles |-> << >>, endt |-> 0, hit |-> "NONE"]

Idle == [pc |-> "idle", script |-> "final", pass |-> 1, sym_i |-> 1,
         strategy |-> "INTRADAY", df |-> << >>, pending |-> << >>,
         changed |-> FALSE, new_signals_count |-> 0, cand |-> NoSignal,
         sent |-> 0, evals |-> << >>, now |-> At(0, 0, 0, 0), gate |-> "",
         manual |-> FALSE, phases |-> << >>, msg |-> NoMessage,
         examined |-> {}, touched |-> {}]

NoDetect == [fn |-> "none", i |-> << >>, out |-> NoSignal, row |-> NoSignal,
             frame |-> [len |-> 0, tail |-> << >>], raised |-> FALSE, hits |-> << >>]

Init ==
    /\ csv_exists = FALSE
    /\ csv = << >>
    /\ clock = 0
    /\ proc = [p \in Procs |-> Idle]
    /\ df_ohlc = NoFetch
    /\ n_recorded = 0
    /\ det = NoDetect
    /\ logs = NoLogs
    /\ stat = NoStat

\* pd.read_csv(CSV_FILE): the rows in file order; an empty cell is read as NaN
\* ("nan" in a column of strings), every other cell as it was written
read_csv(file) ==
    IF file = << >> THEN << >>
    ELSE [k \in 1..Len(file) |->
            [file[k] EXCEPT !.resolved_at = IF @ = << >> THEN <<NaN>> ELSE @,
                            !.result = IF @ = "" THEN "nan" ELSE @]]

\* to_csv writing a NaN cell as the text "nan"
to_csv_nan_text(df) == df

\* df.to_csv(CSV_FILE, index=False): the rows in frame order; a NaN cell is
\* written empty
to_csv(df) ==
    IF df = << >> THEN << >>
    ELSE [k \in 1..Len(df) |->
            [df[k] EXCEPT !.resolved_at = IF @ = <<NaN>> THEN << >> ELSE @,
                          !.result = IF @ = "nan" THEN "" ELSE @]]

\* df[df["status"] == "PENDING"].index: ascending row positions
RECURSIVE pending_from(_, _)
pending_from(df, i) ==
    IF i > Len(df) THEN << >>
    ELSE IF df[i].status = "PENDING" THEN <<i>> \o pending_from(df, i + 1)
    ELSE pending_from(df, i + 1)

\* pending_idx selecting every row that is not TGT
RECURSIVE not_tgt_from(_, _)
not_tgt_from(df, i) ==
    IF i > Len(df) THEN << >>
    ELSE IF df[i].status # "TGT" THEN <<i>> \o not_tgt_from(df, i + 1)
    ELSE not_tgt_from(df, i + 1)

pending_idx_not_tgt(df) == not_tgt_from(df, 1)

\* pending_idx without the status filter: every row
pending_idx_all(df) == [i \in 1..Len(df) |-> i]

pending_idx(df) == pending_from(df, 1)

\* record_signal calls begun and not yet returned
InFlight == Cardinality({p \in Procs : proc[p].pc \in {"rec_read", "rec_write"}})

\* ------------------------------------------------------------------ main
\* main up to the first update_pending_signals: the market-hours gate and
\* ensure_csv.  nifty_banknifty_signals.py calls ensure_csv before the gate.
\* The run is started at now (UTC); manual says that nifty_banknifty_signals.py
\* is run by hand (GITHUB_EVENT_NAME is workflow_dispatch), which passes its gate.
main_start(p, scr, now, manual) ==
    LET open == is_market_open(now)
        run  == open \/ (scr = "bn" /\ manual)
        r    == [Idle EXCEPT !.script = scr, !.now = now,
                             !.gate = IF open THEN "open" ELSE "closed",
                             !.manual = (scr = "bn" /\ manual)]
    IN
    /\ proc[p].pc = "idle"
    /\ csv_exists' = (csv_exists \/ run \/ scr = "bn")
    /\ proc' = [proc EXCEPT ![p] = IF run THEN [r EXCEPT !.pc = "upd_read"] ELSE r]
    /\ df_ohlc' = NoFetch
    /\ UNCHANGED <<csv, clock, n_recorded>>

\* where main goes on after update_pending_signals returns; the locals of
\* update_pending_signals are gone
after_update(r) ==
    [r EXCEPT !.pc = IF r.pass = 1 THEN "detect" ELSE "finish",
              !.df = << >>, !.pending = << >>, !.changed = FALSE,
              !.examined = {}, !.touched = {},
              !.phases = Append(r.phases, IF r.pass = 1 THEN "update 1" ELSE "update 2")]

\* update_pending_signals, the read of the CSV and the selection of PENDING rows
update_pending_signals_read(p) ==
    LET r == proc[p] IN
    /\ r.pc = "upd_read"
    /\ proc' = [proc EXCEPT ![p] =
          IF ~csv_exists THEN after_update(r)
          ELSE IF r.script = "bn" /\ pending_idx(csv) = << >>
          THEN after_update(r)
          ELSE [r EXCEPT !.pc = "upd_row", !.df = read_csv(csv),
                         !.pending = pending_idx(csv), !.changed = FALSE]]
    /\ df_ohlc' = NoFetch
    /\ UNCHANGED <<csv_exists, csv, clock, n_recorded>>

\* resolve_row with resolved_at stamped outside "if hit:"
resolve_row_stamp_always(script, row, hit, now) ==
    IF script = "bn"
    THEN IF hit = "NONE" THEN [row EXCEPT !.resolved_at = <<now>>]
         ELSE [row EXCEPT !.status = hit, !.resolved_at = <<now>>,
                          !.result = IF hit = "TGT" THEN "WIN" ELSE "LOSS"]
    ELSE IF hit = "NONE" THEN row ELSE [row EXCEPT !.status = hit]

\* resolve_row that marks the status and leaves resolved_at and result alone
resolve_row_status_only(script, row, hit, now) ==
    IF hit = "NONE" THEN row ELSE [row EXCEPT !.status = hit]

\* the row as update_pending_signals leaves it after the scan of its frame
resolve_row(script, row, hit, now) ==
    IF hit = "NONE" THEN row
    ELSE IF script = "bn"
    THEN [row EXCEPT !.status = hit, !.resolved_at = <<now>>,
                     !.result = IF hit = "TGT" THEN "WIN" ELSE "LOSS"]
    ELSE [row EXCEPT !.status = hit]

\* update_pending_signals_row with "changed = bool(hit)" in place of
\* "if hit: changed = True"
update_pending_signals_row_changed_last(p, w) ==
    LET r   == proc[p]
        idx == Head(r.pending)
        row == r.df[idx]
        hit == scan_hit(row.direction, row.SL, row.TGT, w)
    IN
    /\ r.pc = "upd_row"
    /\ r.pending # << >>
    /\ proc' = [proc EXCEPT ![p] =
          [r EXCEPT !.pending = Tail(r.pending),
                    !.df = [r.df EXCEPT ![idx] = resolve_row(r.script, row, hit, clock)],
                    !.changed = (hit # "NONE"),
                    !.examined = r.examined \cup {idx},
                    !.touched = r.touched \cup
                        (IF \E k \in DOMAIN w : Touches(row, w[k]) THEN {idx} ELSE {})]]
    /\ df_ohlc' = [proc |-> p, idx |-> idx, candles |-> w, endt |-> clock, hit |-> hit]
    /\ UNCHANGED <<csv_exists, csv, clock, n_recorded>>

\* one iteration of the loop over the PENDING rows: fetch, scan, mark.
\* examined and touched keep, for the pass, the rows a frame was fetched
\* for and those whose frame had a candle reaching the target or the stop.
update_pending_signals_row(p, w) ==
    LET r   == proc[p]
        idx == Head(r.pending)
        row == r.df[idx]
        hit == scan_hit(row.direction, row.SL, row.TGT, w)
    IN
    /\ r.pc = "upd_row"
    /\ r.pending # << >>
    /\ proc' = [proc EXCEPT ![p] =
          [r EXCEPT !.pending = Tail(r.pending),
                    !.df = [r.df EXCEPT ![idx] = resolve_row(r.script, row, hit, clock)],
                    !.changed = r.changed \/ hit # "NONE",
                    !.examined = r.examined \cup {idx},
                    !.touched = r.touched \cup
                        (IF \E k \in DOMAIN w : Touches(row, w[k]) THEN {idx} ELSE {})]]
    /\ df_ohlc' = [proc |-> p, idx |-> idx, candles |-> w, endt |-> clock, hit |-> hit]
    /\ UNCHANGED <<csv_exists, csv, clock, n_recorded>>

\* the end of update_pending_signals: df.to_csv, in nifty50_signals_final.py
\* only if a row changed
update_pending_signals_write(p) ==
    LET r == proc[p] IN
    /\ r.pc = "upd_row"
    /\ r.pending = << >>
    /\ csv' = IF r.script = "bn" \/ r.changed THEN to_csv(r.df) ELSE csv
    /\ proc' = [proc EXCEPT ![p] = after_update(r)]
    /\ df_ohlc' = NoFetch
    /\ UNCHANGED <<csv_exists, clock, n_recorded>>

\* main's loop moves on to the next detector call, or to the second update
advance(r, symbols) ==
    IF r.strategy = "INTRADAY" THEN [r EXCEPT !.strategy = "SWING", !.pc = "detect"]
    ELSE IF r.sym_i < Len(symbols)
    THEN [r EXCEPT !.sym_i = r.sym_i + 1, !.strategy = "INTRADAY", !.pc = "detect"]
    ELSE [r EXCEPT !.pc = "upd_read", !.pass = 2]

\* main's loop after "continue" in its except clause: the next symbol, or the
\* second update
continue_loop(r, symbols) ==
    IF r.sym_i < Len(symbols)
    THEN [r EXCEPT !.sym_i = r.sym_i + 1, !.strategy = "INTRADAY", !.pc = "detect",
                   !.df = << >>, !.cand = NoSignal]
    ELSE [r EXCEPT !.pc = "upd_read", !.pass = 2, !.df = << >>, !.cand = NoSignal]

\* the detector call main's loop is at, with how it ended
eval(r, symbols, out) ==
    [symbol |-> symbols[r.sym_i], strategy |-> r.strategy, out |-> out]

\* the latest detector call of the cycle ended as out
ended(r, out) == [r EXCEPT !.evals[Len(r.evals)].out = out]

\* one detector call of main's loop on the frame i fetched for the symbol
main_detect(p, i, symbols) ==
    LET r   == proc[p]
        res == detect(r.script, r.strategy, i)
        e   == [r EXCEPT !.evals = Append(r.evals,
                   eval(r, symbols, IF res = NoSignal THEN "none" ELSE "signal")),
                         !.phases = Append(r.phases, "detect")]
    IN
    /\ r.pc = "detect"
    /\ res # NoSignal => n_recorded + InFlight < MaxRows
    /\ proc' = [proc EXCEPT ![p] =
          IF res = NoSignal THEN advance(e, symbols)
          ELSE [e EXCEPT !.pc = "rec_read", !.cand = res]]
    /\ df_ohlc' = NoFetch
    /\ UNCHANGED <<csv_exists, csv, clock, n_recorded>>

\* record_signal: ensure_csv and pd.read_csv
record_signal_read(p) ==
    LET r == proc[p] IN
    /\ r.pc = "rec_read"
    /\ csv_exists' = TRUE
    /\ proc' = [proc EXCEPT ![p] = [r EXCEPT !.pc = "rec_write", !.df = read_csv(csv)]]
    /\ df_ohlc' = NoFetch
    /\ UNCHANGED <<csv, clock, n_recorded>>

\* the row record_signal builds
new_row(ts, symbol, strategy, direction, entry, sl, tgt) ==
    [timestamp |-> ts, symbol |-> symbol, strategy |-> strategy,
     direction |-> direction, entry |-> entry, SL |-> sl, TGT |-> tgt,
     status |-> "PENDING", resolved_at |-> << >>, result |-> ""]

\* the rows record_signal can build for a candidate, one for each way the
\* roundings can fall
rounded_rows(ts, symbol, strategy, cand) ==
    {new_row(ts, symbol, strategy, cand.direction, e, s, t) :
        e \in round2(cand.entry), s \in round2(cand.SL), t \in round2(cand.TGT)}

\* a frame made of the new row alone
concat_new_only(df, row) == <<row>>

\* pd.concat([df, pd.DataFrame([row])], ignore_index=True)
concat(df, row) == Append(df, row)

\* record_signal: pd.concat and df.to_csv; then main counts the signal
record_signal_write(p, symbols) ==
    LET r == proc[p] IN
    /\ r.pc = "rec_write"
    /\ \E row \in rounded_rows(clock, symbols[r.sym_i], r.strategy, r.cand) :
          csv' = to_csv(concat(r.df, row))
    /\ proc' = [proc EXCEPT ![p] =
          advance([ended(r, "recorded") EXCEPT
                            !.new_signals_count = r.new_signals_count + 1,
                            !.phases = Append(r.phases, "record"),
                            !.df = << >>, !.cand = NoSignal], symbols)]
    /\ n_recorded' = n_recorded + 1
    /\ df_ohlc' = NoFetch
    /\ UNCHANGED <<csv_exists, clock>>

\* a detector call whose fetch_ohlc has no data for the symbol: yf.download
\* raised and fetch_ohlc returned an empty frame from its except clause, or
\* the download came back empty; the detector returns None
main_detect_no_data(p, symbols) ==
    LET r == proc[p] IN
    /\ r.pc = "detect"
    /\ proc' = [proc EXCEPT ![p] =
          advance([r EXCEPT !.evals = Append(r.evals, eval(r, symbols, "no data")),
                            !.phases = Append(r.phases, "detect")],
                  symbols)]
    /\ df_ohlc' = NoFetch
    /\ UNCHANGED <<csv_exists, csv, clock, n_recorded>>

\* main's loop without its try block: the exception ends the run
main_raise_aborts(p, symbols) ==
    LET r == proc[p] IN
    /\ r.pc \in {"detect", "rec_read"}
    /\ proc' = [proc EXCEPT ![p] = [Idle EXCEPT !.script = r.script]]
    /\ df_ohlc' = NoFetch
    /\ UNCHANGED <<csv_exists, csv, clock, n_recorded>>

\* an exception raised inside the try block of main's loop, by the detector
\* or by record_signal before it writes: main prints it and continues with
\* the next symbol
main_raise(p, symbols) ==
    LET r == proc[p] IN
    /\ r.pc \in {"detect", "rec_read"}
    /\ proc' = [proc EXCEPT ![p] =
          continue_loop(IF r.pc = "detect"
                        THEN [r EXCEPT !.evals = Append(r.evals, eval(r, symbols, "raised")),
                                       !.phases = Append(r.phases, "detect")]
                        ELSE ended(r, "raised"), symbols)]
    /\ df_ohlc' = NoFetch
    /\ UNCHANGED <<csv_exists, csv, clock, n_recorded>>

\* the accuracy figures main computes after its second update
final_summary(r) ==
    IF r.script = "bn" THEN compute_overall_accuracy_summary(csv, csv_exists)
    ELSE compute_accuracy(csv, csv_exists)

\* the message of a main that sends whenever it ends
final_message_always(r) ==
    Message("signals", r.new_signals_count, final_summary(r))

\* the message of a main that takes its figures from the ledger as it was
\* before the signals of this cycle were recorded
final_message_stale(r) ==
    IF r.new_signals_count > 0
    THEN Message("signals", r.new_signals_count,
                 compute_accuracy(SubSeq(csv, 1, Len(csv) - r.new_signals_count), csv_exists))
    ELSE NoMessage

\* what main sends at its end: the signals with the accuracy figures if a
\* signal was recorded; nifty_banknifty_signals.py run by hand confirms a run
\* without signals
final_message(r) ==
    IF r.new_signals_count > 0
    THEN Message("signals", r.new_signals_count, final_summary(r))
    ELSE IF r.script = "bn" /\ r.manual
    THEN Message("manual run complete", 0, Summary(0, 0, 0, 0, 0))
    ELSE NoMessage

\* the end of main: compute_accuracy and one call of send_telegram_message
\* if there is a message.  The invocation has returned; "once" says that
\* this cron slot is not run again.
main_finish(p, once) ==
    LET r   == proc[p]
        msg == final_message(r)
    IN
    /\ r.pc = "finish"
    /\ proc' = [proc EXCEPT ![p] =
          [Idle EXCEPT !.pc = IF once THEN "done" ELSE "idle",
                       !.script = r.script,
                       !.new_signals_count = r.new_signals_count,
                       !.now = r.now, !.gate = r.gate, !.manual = r.manual,
                       !.msg = msg,
                       !.sent = IF msg = NoMessage THEN 0 ELSE 1,
                       !.phases = r.phases \o <<"accuracy">>
                                   \o (IF msg = NoMessage THEN << >> ELSE <<"send">>)]]
    /\ df_ohlc' = NoFetch
    /\ UNCHANGED <<csv_exists, csv, clock, n_recorded>>

\* a candle period passes
Tick ==
    /\ clock < MaxClock
    /\ clock' = clock + 1
    /\ df_ohlc' = NoFetch
    /\ UNCHANGED <<csv_exists, csv, proc, n_recorded>>

\* a step of invocation p in a run c of the scripts: c.symbols is the universe
\* scanned, c.windows the frames a fetch of update_pending_signals may return,
\* c.inputs the frames the detectors may meet, c.once whether a cron slot runs
\* main a single time, c.scripts the scripts that are run, c.nows the
\* instants at which a run is started, c.manual whether runs are started by
\* hand
Step(p, c) ==
    \/ \E scr \in c.scripts, now \in c.nows, manual \in c.manual :
          main_start(p, scr, now, manual)
    \/ update_pending_signals_read(p)
    \/ \E w \in c.windows : update_pending_signals_row(p, w)
    \/ update_pending_signals_write(p)
    \/ \E i \in c.inputs : main_detect(p, i, c.symbols)
    \/ record_signal_read(p)
    \/ record_signal_write(p, c.symbols)
    \/ main_finish(p, c.once)

\* cycles run one after another: one invocation of main at a time, each
\* starting after the one before it has returned
SeqRun ==
    [symbols |-> SYMBOLS, windows |-> Windows, inputs |-> LedgerInputs,
     once |-> FALSE, scripts |-> Scripts, nows |-> RunTimes, manual |-> {FALSE}]

Next ==
    \/ Step("p1", SeqRun) /\ UNCHANGED <<det, logs, stat>>
    \/ Tick /\ UNCHANGED <<det, logs, stat>>

Spec == Init /\ [][Next]_vars

\* independent invocations (overlapping cron runs) interleave at their file
\* accesses and fetches
\* Each of two cron slots runs main once over the first symbol; the price is
\* above VWAP, and a fetch returns no data, a candle with High 12.50 or a
\* candle with Low 7.50.
ConcRun ==
    [symbols |-> SubSeq(SYMBOLS, 1, 1),
     windows |-> {<< >>, <<Candle(125000, 100000)>>, <<Candle(110000, 75000)>>},
     inputs  |-> {i \in LedgerInputs : i.vwap = 90000},
     once    |-> TRUE, scripts |-> Scripts, nows |-> RunTimes, manual |-> {FALSE}]

NextConc ==
    \/ \E p \in Procs : Step(p, ConcRun) /\ UNCHANGED <<det, logs, stat>>
    \/ Tick /\ UNCHANGED <<det, logs, stat>>

SpecConc == Init /\ [][NextConc]_vars

\* cycles of nifty50_signals_final.py in which fetches fail and calls raise.  The EMAs of the previous
\* candle are 9.00 and 11.00 and the price is above VWAP; a fetch of
\* update_pending_signals returns no data or a candle with High 12.50.
CycleRun ==
    [symbols |-> SYMBOLS,
     windows |-> {<< >>, <<Candle(125000, 100000)>>},
     inputs  |-> {i \in LedgerInputs : i.vwap = 90000 /\ i.pf = 90000 /\ i.ps = 110000},
     once    |-> FALSE, scripts |-> {"final"}, nows |-> RunTimes, manual |-> {FALSE}]

\* a step of main, the failures of its collaborators included
RunCycle ==
    \/ Step("p1", CycleRun)
    \/ main_detect_no_data("p1", CycleRun.symbols)
    \/ main_raise("p1", CycleRun.symbols)

NextCycle ==
    \/ RunCycle /\ UNCHANGED <<det, logs, stat>>
    \/ Tick /\ UNCHANGED <<det, logs, stat>>

\* main is a sequential program whose collaborators return: it keeps taking
\* its next step
SpecCycle == Init /\ [][NextCycle]_vars /\ WF_vars(RunCycle /\ UNCHANGED <<det, logs, stat>>)

\* --------------------------------------------------- the detectors by themselves
ledger_vars == <<csv_exists, csv, clock, proc, df_ohlc, n_recorded, logs, stat>>

InitDetect ==
    /\ csv_exists = FALSE
    /\ csv = << >>
    /\ clock = 0
    /\ proc = [p \in Procs |-> Idle]
    /\ df_ohlc = NoFetch
    /\ n_recorded = 0
    /\ det \in {[NoDetect EXCEPT !.i = i] : i \in DetectInputs}
    /\ logs = NoLogs
    /\ stat = NoStat

\* a detector of nifty50_signals_final.py is called on the frame
call_intraday_check ==
    /\ det.fn = "none"
    /\ det' = [det EXCEPT !.fn = "intraday_check", !.out = intraday_check(det.i)]
    /\ UNCHANGED ledger_vars

call_swing_check ==
    /\ det.fn = "none"
    /\ det' = [det EXCEPT !.fn = "swing_check", !.out = swing_check(det.i)]
    /\ UNCHANGED ledger_vars

\* get_signal of nifty_banknifty_signals_v7.py is called on the frame
call_get_signal_v7 ==
    /\ det.fn = "none"
    /\ \E trade_type \in {"INTRADAY", "SWING"} :
          \E g \in get_signal_v7(det.i, trade_type) :
              det' = [det EXCEPT !.fn = "get_signal_v7", !.out = g]
    /\ UNCHANGED ledger_vars

\* get_rsi_signal of nifty_banknifty_signals_rsi_v8.py is called on the frame
call_get_rsi_signal ==
    /\ det.fn = "none"
    /\ \E g \in get_rsi_signal(det.i) :
          det' = [det EXCEPT !.fn = "get_rsi_signal", !.out = g]
    /\ UNCHANGED ledger_vars

\* main of nifty50_signals_final.py records the candidate a detector returned
call_record_signal ==
    /\ det.fn \in {"intraday_check", "swing_check"}
    /\ det.out # NoSignal
    /\ det.row = NoSignal
    /\ \E row \in rounded_rows(0, SYMBOLS[1], "INTRADAY", det.out) :
          det' = [det EXCEPT !.row = Signal(row.direction, row.entry, row.SL, row.TGT)]
    /\ UNCHANGED ledger_vars

NextDetect ==
    \/ call_intraday_check
    \/ call_swing_check
    \/ call_get_signal_v7
    \/ call_get_rsi_signal
    \/ call_record_signal

SpecDetect == InitDetect /\ [][NextDetect]_vars

\* ------------------------------------------------- detectors on a fetched series
\* the rows of a series a detector reads: the last three, iloc[-3] .. iloc[-1]
Lookback == 3

\* a candle of a fetched series: its Close and the values the EMA pair and the
\* RSI take on it once their windows are filled
FrameRow(c, f, s, r) == [close |-> c, fast |-> f, slow |-> s, rsi |-> r]

FrameRows == {FrameRow(c, f, 100000, r) :
                 c \in {100030, 100530}, f \in {90000, 110000}, r \in {40, 50, 60}}

\* lengths of a fetched series around the length guards and the indicator windows
FrameLens == {0, 1, 2, 3, 29, 30, 51, 52, 119, 120, 201, 202}

\* a fetched series: its length and its last rows, oldest first, the last one
\* being the candle that is still forming
Frames ==
    UNION {[len : {n}, tail : [1..(IF n < Lookback THEN n ELSE Lookback) -> FrameRows]] :
              n \in FrameLens}

\* df.iloc[-back]
iloc(frame, back) == frame.tail[Len(frame.tail) - back + 1]

\* an indicator of the given window at the k-th candle of a series: undefined
\* (NaN) until the window is filled (min_periods = window)
warm(window, k, v) == IF k >= window THEN v ELSE NaN

\* the indicator values a detector reads when it takes iloc[-back] as its
\* latest candle and iloc[-back-1] as the previous one
ind_rows(frame, back, fast_w, slow_w) ==
    LET latest == iloc(frame, back)
        prev   == iloc(frame, back + 1)
        kl     == frame.len - back + 1
        kp     == kl - 1
    IN  [pf |-> warm(fast_w, kp, prev.fast), ps |-> warm(slow_w, kp, prev.slow),
         lf |-> warm(fast_w, kl, latest.fast), ls |-> warm(slow_w, kl, latest.slow),
         price |-> latest.close, vwap |-> 90000, atr |-> 10000, adx |-> 30,
         vol_now |-> 20, vol_avg |-> warm(20, kl, 10),
         prsi |-> warm(14, kp, prev.rsi), rsi |-> warm(14, kl, latest.rsi),
         macd |-> warm(34, kl, 2), macd_sig |-> warm(34, kl, 1)]

\* intraday_check from the fetch on: the length guards, then the rule on
\* latest = iloc[-2], prev = iloc[-3]
fetch_intraday_check(frame) ==
    IF frame.len = 0 \/ frame.len < 30 THEN NoSignal
    ELSE IF frame.len < 4 THEN NoSignal
    ELSE intraday_check(ind_rows(frame, 2, 20, 50))

\* swing_check from the fetch on
fetch_swing_check(frame) ==
    IF frame.len = 0 \/ frame.len < 120 THEN NoSignal
    ELSE IF frame.len < 5 THEN NoSignal
    ELSE swing_check(ind_rows(frame, 2, 50, 200))

\* get_rsi_signal from the download on: prev = iloc[-2], latest = iloc[-1]
fetch_get_rsi_signal(frame) ==
    IF frame.len = 0 THEN {NoSignal}
    ELSE IF frame.len < 2 THEN {NoSignal}
    ELSE get_rsi_signal(ind_rows(frame, 1, 14, 14))

\* swing_rule of nifty_banknifty_signals_v4_master.py: EMA20/EMA50, RSI and
\* MACD on latest = iloc[-1]
swing_rule_v4(frame) ==
    IF frame.len = 0 \/ frame.len < 120 THEN {NoSignal}
    ELSE LET i == ind_rows(frame, 1, 20, 50) IN
         IF FGt(i.lf, i.ls) /\ FGt(i.rsi, 55) /\ FGt(i.macd, i.macd_sig)
         THEN {Signal("BUY", i.price, sl, tgt) :
                  sl \in round2pct(i.price, 98), tgt \in round2pct(i.price, 104)}
         ELSE IF FLt(i.lf, i.ls) /\ FLt(i.rsi, 45) /\ FLt(i.macd, i.macd_sig)
         THEN {Signal("SELL", i.price, sl, tgt) :
                  sl \in round2pct(i.price, 102), tgt \in round2pct(i.price, 96)}
         ELSE {NoSignal}

\* what a call that raised leaves behind
Raised == [NoSignal EXCEPT !.direction = "ERROR"]

\* get_signal of nifty_rsi_signals_v8.py: last = iloc[-1], prev = iloc[-2] with
\* no length guard, so a series of one candle raises IndexError.  It returns
\* the direction only.  The RSI series is built on a fresh RangeIndex and
\* assigned to the downloaded frame, which keeps its values only if the
\* frame's index is the same range; on a time index every value is NaN.
get_signal_rsi_v8(frame) ==
    IF frame.len = 0 THEN {NoSignal}
    ELSE IF frame.len < 2 THEN {Raised}
    ELSE LET i == ind_rows(frame, 1, 14, 14) IN
         {NoSignal} \cup
         (IF FLe(i.prsi, 30) /\ FGt(i.rsi, 30) THEN {Signal("BUY", 0, 0, 0)}
          ELSE IF FGe(i.prsi, 70) /\ FLt(i.rsi, 70) THEN {Signal("SELL", 0, 0, 0)}
          ELSE {})

InitFrame ==
    /\ csv_exists = FALSE
    /\ csv = << >>
    /\ clock = 0
    /\ proc = [p \in Procs |-> Idle]
    /\ df_ohlc = NoFetch
    /\ n_recorded = 0
    /\ det \in {[NoDetect EXCEPT !.frame = f] : f \in Frames}
    /\ logs = NoLogs
    /\ stat = NoStat

\* the outcome of a detector call on the fetched series
returned(fn, g) ==
    [det EXCEPT !.fn = fn, !.out = IF g = Raised THEN NoSignal ELSE g,
                !.raised = (g = Raised)]

call_fetch_intraday_check ==
    /\ det.fn = "none"
    /\ det' = returned("intraday_check", fetch_intraday_check(det.frame))
    /\ UNCHANGED ledger_vars

call_fetch_swing_check ==
    /\ det.fn = "none"
    /\ det' = returned("swing_check", fetch_swing_check(det.frame))
    /\ UNCHANGED ledger_vars

call_fetch_get_rsi_signal ==
    /\ det.fn = "none"
    /\ \E g \in fetch_get_rsi_signal(det.frame) : det' = returned("get_rsi_signal", g)
    /\ UNCHANGED ledger_vars

call_swing_rule_v4 ==
    /\ det.fn = "none"
    /\ \E g \in swing_rule_v4(det.frame) : det' = returned("swing_rule_v4", g)
    /\ UNCHANGED ledger_vars

call_get_signal_rsi_v8 ==
    /\ det.fn = "none"
    /\ \E g \in get_signal_rsi_v8(det.frame) : det' = returned("get_signal_rsi_v8", g)
    /\ UNCHANGED ledger_vars

NextFrame ==
    \/ call_fetch_intraday_check
    \/ call_fetch_swing_check
    \/ call_fetch_get_rsi_signal
    \/ call_swing_rule_v4
    \/ call_get_signal_rsi_v8

SpecFrame == InitFrame /\ [][NextFrame]_vars

\* ------------------------------------------------ the v6, v7 and v8 log files
\* rows the model lets nifty_banknifty_signals_rsi_v8.py append to its log
MaxLog == 6

\* the universe the v6, v7 and v8 scripts scan, cut to its head
ALL_STOCKS == <<"RELIANCE.NS">>

\* the detector calls of one cycle in loop order: for each stock, each kind
calls(stocks, kinds) ==
    [j \in 1..(Len(stocks) * Len(kinds)) |->
        [stock |-> stocks[((j - 1) \div Len(kinds)) + 1],
         kind  |-> kinds[((j - 1) % Len(kinds)) + 1]]]

\* the frame a cycle builds in memory: starting empty, one row for each call
\* (those numbered in found) that returned a signal
RECURSIVE found_rows(_, _, _)
found_rows(cs, found, now) ==
    IF cs = << >> THEN << >>
    ELSE LET rest == found_rows(Tail(cs), {k - 1 : k \in found \ {1}}, now) IN
         IF 1 \in found
         THEN <<[stock |-> Head(cs).stock, kind |-> Head(cs).kind, time |-> now]>> \o rest
         ELSE rest

not_logs == <<csv_exists, csv, clock, proc, df_ohlc, n_recorded, det, stat>>

\* a cycle of main of nifty_signals_v6.py in market hours: the frame built in
\* this cycle is written over signal_log.csv
main_v6(found) ==
    /\ logs' = [logs EXCEPT !["signal_log.csv"] =
                   found_rows(calls(ALL_STOCKS, <<"Intraday", "Swing">>), found, clock)]
    /\ UNCHANGED not_logs

\* a cycle of main of nifty_banknifty_signals_v7.py in market hours
main_v7(found) ==
    /\ logs' = [logs EXCEPT !["signal_log_v7.csv"] =
                   found_rows(calls(ALL_STOCKS, <<"INTRADAY", "SWING">>), found, clock)]
    /\ UNCHANGED not_logs

\* a cycle of main of nifty_rsi_signals_v8.py in market hours
main_rsi_v8(found) ==
    /\ logs' = [logs EXCEPT !["signal_log_v8.csv"] =
                   found_rows(calls(ALL_STOCKS, <<"RSI">>), found, clock)]
    /\ UNCHANGED not_logs

\* the results get_rsi_signal returns around its thresholds
RsiInputs == {i \in DetectInputs : i.pf = 100000}
RsiSignals == UNION {get_rsi_signal(i) : i \in RsiInputs}

\* market_open_now of nifty_banknifty_signals_rsi_v8.py: n.time() keeps its
\* seconds
market_open_now(now_utc) ==
    LET n == astimezone(now_utc) IN
    n.wd < 5 /\ At(n.wd, 9, 15, 0).s <= n.s /\ n.s <= At(n.wd, 15, 30, 0).s

\* resolved rows of one stock and trade type that the win rate needs
MinResolved == 5

\* the columns compute_historical_win_pct reads
WinPctColumns == {"stock", "trade_type", "status", "result"}

\* compute_historical_win_pct with the status filter left out
compute_historical_win_pct_any_status(df, stock, trade_type) ==
    IF \E k \in 1..Len(df) : ~(WinPctColumns \subseteq DOMAIN df[k]) THEN NaN
    ELSE LET keep(row) == row.stock = stock /\ row.trade_type = trade_type
             subset == SelectSeq(df, keep)
             win(row) == row.result = "WIN"
         IN  IF Len(subset) < MinResolved THEN NaN
             ELSE pct2(Len(SelectSeq(subset, win)), Len(subset))

\* compute_historical_win_pct on the log as read: None is NaN; a log without
\* the columns raises, and the bare except returns None
compute_historical_win_pct(df, stock, trade_type) ==
    IF \E k \in 1..Len(df) : ~(WinPctColumns \subseteq DOMAIN df[k]) THEN NaN
    ELSE LET keep(row) == /\ row.stock = stock
                          /\ row.trade_type = trade_type
                          /\ row.status = "RESOLVED"
             subset == SelectSeq(df, keep)
             win(row) == row.result = "WIN"
         IN  IF Len(subset) < MinResolved THEN NaN
             ELSE pct2(Len(SelectSeq(subset, win)), Len(subset))

\* what format_signal_message writes for the historical win rate
win_text(win_pct) == IF win_pct = NaN THEN "Insufficient data" ELSE "pct"

\* a message the script sends
RsiMessage(kind, stock, signal, win_pct) ==
    [kind |-> kind, stock |-> stock, signal |-> signal, win_pct |-> win_pct,
     win_text |-> IF kind = "signal" THEN win_text(win_pct) ELSE ""]

\* the loop of main over the stocks, sigs being what get_rsi_signal returns for
\* each: for a signal the win rate is computed on the log as it stands, then
\* append_signal_log reads the file, adds the row and writes it back, then the
\* message is formatted
RECURSIVE rsi_v8_loop(_, _, _, _, _)
rsi_v8_loop(stocks, sigs, log, run_time, signals_found) ==
    IF stocks = << >> THEN [log |-> log, signals_found |-> signals_found]
    ELSE LET stock == Head(stocks)
             sig == Head(sigs)
             win_pct == compute_historical_win_pct(log, stock, "RSI")
             entry == [datetime |-> run_time, stock |-> stock, trade_type |-> "RSI",
                       signal |-> sig.direction, entry |-> sig.entry,
                       target |-> sig.TGT, stop_loss |-> sig.SL,
                       status |-> "PENDING", result |-> ""]
         IN  IF sig = NoSignal
             THEN rsi_v8_loop(Tail(stocks), Tail(sigs), log, run_time, signals_found)
             ELSE rsi_v8_loop(Tail(stocks), Tail(sigs), Append(log, entry), run_time,
                              Append(signals_found,
                                     RsiMessage("signal", stock, sig.direction, win_pct)))

\* a cycle of main of nifty_banknifty_signals_rsi_v8.py started at now: the
\* messages it sends are kept in stat
main_banknifty_rsi_v8(now, sigs) ==
    LET out == rsi_v8_loop(ALL_STOCKS, sigs, logs["signal_log_v8.csv"], clock, << >>)
        started == RsiMessage("run started", "", "", NaN)
    IN  /\ IF ~market_open_now(now)
           THEN /\ logs' = logs
                /\ stat' = [NoStat EXCEPT
                               !.fn = "main",
                               !.messages = <<started,
                                              RsiMessage("market closed", "", "", NaN)>>]
           ELSE /\ Len(out.log) <= MaxLog
                /\ logs' = [logs EXCEPT !["signal_log_v8.csv"] = out.log]
                /\ stat' = [NoStat EXCEPT
                               !.fn = "main",
                               !.messages =
                                   <<started>> \o
                                   (IF out.signals_found = << >>
                                    THEN <<RsiMessage("no signals", "", "", NaN)>>
                                    ELSE out.signals_found)]
        /\ UNCHANGED <<csv_exists, csv, clock, proc, df_ohlc, n_recorded, det>>

\* what get_rsi_signal may return for each stock of a cycle
CycleSignals == [1..Len(ALL_STOCKS) -> RsiSignals]

NextLogs ==
    \/ \E found \in SUBSET (1..2) : main_v6(found)
    \/ \E found \in SUBSET (1..2) : main_v7(found)
    \/ \E found \in SUBSET (1..1) : main_rsi_v8(found)
    \/ \E now \in RunTimes, sigs \in CycleSignals : main_banknifty_rsi_v8(now, sigs)
    \/ Tick /\ UNCHANGED <<det, logs, stat>>

SpecLogs == Init /\ [][NextLogs]_vars

\* nifty_banknifty_signals_rsi_v8.py as the only writer of its log
NextRsiV8 ==
    \/ \E now \in RunTimes, sigs \in CycleSignals : main_banknifty_rsi_v8(now, sigs)
    \/ Tick /\ UNCHANGED <<det, logs, stat>>

SpecRsiV8 == Init /\ [][NextRsiV8]_vars

\* ------------------------------------------------------------- statistics
\* rows of the ledgers the statistics are tried on
MaxLedger == 5

MIN_HISTORY_FOR_CONFIDENCE == 5
MAX_HISTORY_LOOKBACK_DAYS == 365

\* the day, counted from the oldest row, on which the statistics are computed
Today == 400

\* compute_historical_confidence with the PENDING rows left in
compute_historical_confidence_with_pending(df, exists, symbol, direction, now) ==
    IF ~exists THEN NaN
    ELSE IF df = << >> THEN NaN
    ELSE LET cutoff      == now - MAX_HISTORY_LOOKBACK_DAYS
             df_recent   == SelectSeq(df, LAMBDA row :
                                 row.symbol = symbol /\ row.direction = direction
                                 /\ row.timestamp >= cutoff)
             total       == Len(df_recent)
             wins        == Len(SelectSeq(df_recent, LAMBDA row : row.status = "TGT"))
         IN  IF total < MIN_HISTORY_FOR_CONFIDENCE THEN NaN ELSE pct2(wins, total)

\* compute_historical_confidence(symbol, direction) on the ledger df; NaN
\* stands for None
compute_historical_confidence(df, exists, symbol, direction, now) ==
    IF ~exists THEN NaN
    ELSE IF df = << >> THEN NaN
    ELSE LET cutoff      == now - MAX_HISTORY_LOOKBACK_DAYS
             df_recent   == SelectSeq(df, LAMBDA row :
                                 row.symbol = symbol /\ row.direction = direction
                                 /\ row.timestamp >= cutoff)
             df_resolved == SelectSeq(df_recent, LAMBDA row : row.status \in {"TGT", "SL"})
             total       == Len(df_resolved)
             wins        == Len(SelectSeq(df_resolved, LAMBDA row : row.status = "TGT"))
         IN  IF total < MIN_HISTORY_FOR_CONFIDENCE THEN NaN ELSE pct2(wins, total)

\* a ledger row by its key, status and day
StatRow(symbol, direction, strategy, status, ts) ==
    [new_row(ts, symbol, strategy, direction, 100000, 88000, 125000)
        EXCEPT !.status = status]

\* rows around one key: resolved and pending rows of the key, and resolved
\* rows that differ from it in strategy, direction, symbol or age
StatRows ==
    {StatRow("RELIANCE.NS", "BUY", "INTRADAY", st, Today - 1) : st \in {"TGT", "SL", "PENDING"}}
    \cup {StatRow("RELIANCE.NS", "BUY", "SWING", "TGT", Today - 1),
          StatRow("RELIANCE.NS", "SELL", "INTRADAY", "TGT", Today - 1),
          StatRow("HDFCBANK.NS", "BUY", "INTRADAY", "SL", Today - 1),
          StatRow("RELIANCE.NS", "BUY", "INTRADAY", "TGT", 0)}

Ledgers == UNION {[1..n -> StatRows] : n \in 0..MaxLedger}

InitStats ==
    /\ csv_exists = TRUE
    /\ csv \in Ledgers
    /\ clock = Today
    /\ proc = [p \in Procs |-> Idle]
    /\ df_ohlc = NoFetch
    /\ n_recorded = 0
    /\ det = NoDetect
    /\ logs = NoLogs
    /\ stat = NoStat

not_stat == <<csv_exists, csv, clock, proc, df_ohlc, n_recorded, det, logs>>

\* main of nifty_banknifty_signals.py asks for the win rate of a signal it is
\* about to record; the strategy of the signal is not passed on
call_compute_historical_confidence ==
    /\ stat.fn = "none"
    /\ \E direction \in {"BUY", "SELL"}, strategy \in {"INTRADAY", "SWING"} :
          stat' = [NoStat EXCEPT !.fn = "compute_historical_confidence",
                                 !.symbol = "RELIANCE.NS", !.direction = direction,
                                 !.strategy = strategy,
                                 !.winpct = compute_historical_confidence(
                                     csv, csv_exists, "RELIANCE.NS", direction, clock)]
    /\ UNCHANGED not_stat

summary_of(fn, r) ==
    [NoStat EXCEPT !.fn = fn, !.accuracy = r.accuracy, !.total = r.total,
                   !.achieved = r.achieved, !.failed = r.failed, !.pending = r.pending]

call_compute_accuracy ==
    /\ stat.fn = "none"
    /\ stat' = summary_of("compute_accuracy", compute_accuracy(csv, csv_exists))
    /\ UNCHANGED not_stat

call_compute_overall_accuracy_summary ==
    /\ stat.fn = "none"
    /\ stat' = summary_of("compute_overall_accuracy_summary",
                          compute_overall_accuracy_summary(csv, csv_exists))
    /\ UNCHANGED not_stat

NextStats ==
    \/ call_compute_historical_confidence
    \/ call_compute_accuracy
    \/ call_compute_overall_accuracy_summary

SpecStats == InitStats /\ [][NextStats]_vars

\* ------------------------------------- nifty_banknifty_signals.py by itself
\* cycles of nifty_banknifty_signals.py alone on its ledger, started by the
\* schedule or by hand; a fetch of update_pending_signals returns no data, a
\* candle with High 12.50 or a candle with Low 7.50
BnRun ==
    [symbols |-> SYMBOLS,
     windows |-> {<< >>, <<Candle(125000, 100000)>>, <<Candle(110000, 75000)>>},
     inputs  |-> {i \in LedgerInputs : i.vwap = 90000 /\ i.pf = 90000 /\ i.ps = 110000},
     once    |-> FALSE, scripts |-> {"bn"}, nows |-> RunTimes, manual |-> BOOLEAN]

NextBn ==
    \/ Step("p1", BnRun) /\ UNCHANGED <<det, logs, stat>>
    \/ Tick /\ UNCHANGED <<det, logs, stat>>

SpecBn == Init /\ [][NextBn]_vars

\* ------------------------------------------------ the scan on growing frames
\* a PENDING row and two fetches for it: the frame w, and a later frame that
\* holds the candles of w followed by the candles x that have closed since
ScanInputs ==
    {[row |-> row, w |-> w, x |-> x] :
        row \in {new_row(0, "RELIANCE.NS", "INTRADAY", "BUY", 100000, 88000, 125000),
                 new_row(0, "RELIANCE.NS", "INTRADAY", "SELL", 100000, 112000, 75000)},
        w \in Windows, x \in Windows}

InitScan ==
    /\ csv_exists = FALSE
    /\ csv = << >>
    /\ clock = 0
    /\ proc = [p \in Procs |-> Idle]
    /\ df_ohlc = NoFetch
    /\ n_recorded = 0
    /\ det \in {[NoDetect EXCEPT !.i = i] : i \in ScanInputs}
    /\ logs = NoLogs
    /\ stat = NoStat

\* the candle loop of update_pending_signals run on both frames
call_scan_hit ==
    LET row == det.i.row IN
    /\ det.fn = "none"
    /\ det' = [det EXCEPT !.fn = "scan_hit",
                          !.hits = <<scan_hit(row.direction, row.SL, row.TGT, det.i.w),
                                     scan_hit(row.direction, row.SL, row.TGT,
                                              det.i.w \o det.i.x)>>]
    /\ UNCHANGED ledger_vars

NextScan == call_scan_hit

SpecScan == InitScan /\ [][NextScan]_vars

\* ------------------------------------------------------ the market-hours gate
\* cycles of nifty50_signals_final.py started at the edges of the session and
\* at weekends
GateRun ==
    [symbols |-> SYMBOLS,
     windows |-> {<< >>, <<Candle(125000, 100000)>>},
     inputs  |-> {i \in LedgerInputs : i.vwap = 90000 /\ i.pf = 90000 /\ i.ps = 110000},
     once    |-> FALSE, scripts |-> {"final"}, nows |-> GateTimes, manual |-> {FALSE}]

NextGate ==
    \/ Step("p1", GateRun) /\ UNCHANGED <<det, logs, stat>>
    \/ Tick /\ UNCHANGED <<det, logs, stat>>

SpecGate == Init /\ [][NextGate]_vars

\* ------------------------------------------------------------------ claims
\* position of the earliest candle of w that touches a bound of row, 0 if none
FirstTouch(row, w) ==
    IF \E k \in DOMAIN w : Touches(row, w[k])
    THEN CHOOSE k \in DOMAIN w :
            Touches(row, w[k]) /\ \A j \in 1..(k - 1) : ~Touches(row, w[j])
    ELSE 0

\* a fetch of update_pending_signals has just been scanned
LastScan == df_ohlc.proc # ""
\* the row it was scanned for, as the pass holds it now and would write it
ScanRow == to_csv(proc[df_ohlc.proc].df)[df_ohlc.idx]
\* the time of candle k of the fetched frame, whose last candle is that of "now"
CandleTime(k) == df_ohlc.endt - Len(df_ohlc.candles) + k

\* C1: when the candle that decides a PENDING row touches both its target and
\* its stop (a gap-through candle), the row resolves to SL.
C1_GapThroughResolvesSL ==
    LastScan =>
        LET k == FirstTouch(ScanRow, df_ohlc.candles) IN
        (k > 0 /\ TouchesTGT(ScanRow, df_ohlc.candles[k])
               /\ TouchesSL(ScanRow, df_ohlc.candles[k]))
            => ScanRow.status = "SL"

\* C2: a row becomes TGT or SL only through a candle whose time is strictly
\* after the row's creation timestamp.
C2_OnlyForwardCandlesResolve ==
    (LastScan /\ ScanRow.status # "PENDING") =>
        LET k == FirstTouch(ScanRow, df_ohlc.candles) IN
        k > 0 /\ CandleTime(k) > ScanRow.timestamp

\* C3: when no candle of the fetched frame touches both bounds, the scanned
\* row gets the outcome of the earliest candle whose High/Low touches a bound
\* (TGT or SL), and stays PENDING when none does.
C3_FirstTouchDecides ==
    (LastScan /\ \A k \in DOMAIN df_ohlc.candles :
                    ~(TouchesTGT(ScanRow, df_ohlc.candles[k])
                      /\ TouchesSL(ScanRow, df_ohlc.candles[k])))
    => LET k == FirstTouch(ScanRow, df_ohlc.candles) IN
       ScanRow.status = IF k = 0 THEN "PENDING"
                        ELSE IF TouchesTGT(ScanRow, df_ohlc.candles[k]) THEN "TGT"
                        ELSE "SL"

\* a BUY row resolved TGT by the second of two candles, the first touching nothing
C3_Witness ==
    /\ LastScan
    /\ Len(df_ohlc.candles) = 2
    /\ ScanRow.direction = "BUY"
    /\ ~Touches(ScanRow, df_ohlc.candles[1])
    /\ TouchesTGT(ScanRow, df_ohlc.candles[2])
    /\ ~TouchesSL(ScanRow, df_ohlc.candles[2])
    /\ ScanRow.status = "TGT"

Statuses == {"PENDING", "TGT", "SL"}

\* C4: every row is created PENDING, its status is always PENDING, TGT or SL,
\* and a row that is TGT or SL keeps its status in every later step.
C4_StatusLifecycle ==
    [][ /\ \A i \in 1..Len(csv') : csv'[i].status \in Statuses
        /\ \A i \in (Len(csv) + 1)..Len(csv') : csv'[i].status = "PENDING"
        /\ \A i \in 1..Len(csv) :
              csv[i].status # "PENDING"
                  => i <= Len(csv') /\ csv'[i].status = csv[i].status ]_vars

\* a row resolved at time 0 has kept its status through the later pass that
\* resolved another row at time 1
C4_Witness ==
    \E i, j \in 1..Len(csv) :
        /\ csv[i].status = "TGT" /\ csv[i].resolved_at = <<0>>
        /\ csv[j].status = "SL" /\ csv[j].resolved_at = <<1>>

\* C5: a pass of update_pending_signals leaves status, result and resolved_at
\* of every row that is already TGT or SL as they were, in the frame it holds
\* and in the file.
C5_ResolveIdempotent ==
    /\ [](\A p \in Procs : proc[p].pc = "upd_row" =>
            \A i \in 1..Len(csv) :
                csv[i].status \in {"TGT", "SL"} =>
                    /\ to_csv(proc[p].df)[i].status = csv[i].status
                    /\ to_csv(proc[p].df)[i].result = csv[i].result
                    /\ to_csv(proc[p].df)[i].resolved_at = csv[i].resolved_at)
    /\ [][\A i \in 1..Len(csv) :
            csv[i].status \in {"TGT", "SL"} =>
                /\ i <= Len(csv')
                /\ csv'[i].status = csv[i].status
                /\ csv'[i].result = csv[i].result
                /\ csv'[i].resolved_at = csv[i].resolved_at]_vars

\* at time 1 a pass that holds a row resolved at time 0 has just resolved
\* another row
C5_Witness ==
    /\ LastScan
    /\ df_ohlc.hit # "NONE"
    /\ clock = 1
    /\ \E i \in 1..Len(csv) :
          /\ csv[i].status \in {"TGT", "SL"}
          /\ csv[i].resolved_at = <<0>>
          /\ i # df_ohlc.idx

\* row i of the file before and after a step is the same signal
SameSignal(a, b) ==
    /\ a.timestamp = b.timestamp /\ a.symbol = b.symbol
    /\ a.strategy = b.strategy /\ a.direction = b.direction

\* C6: when invocations overlap, the write that ends a pass of
\* update_pending_signals never rewrites a row that another invocation has
\* resolved: the row's status and resolved_at stay as they are.
C6_NoDoubleResolution ==
    [][(\E p \in Procs : proc[p].pc = "upd_row" /\ proc'[p].pc # "upd_row") =>
        \A i \in 1..Len(csv) :
          (csv[i].status # "PENDING" /\ i <= Len(csv') /\ SameSignal(csv[i], csv'[i]))
              => /\ csv'[i].status = csv[i].status
                 /\ csv'[i].resolved_at = csv[i].resolved_at]_vars

\* C7: no appended row is lost: the file holds a row for every record_signal
\* call that has returned.
C7_NoLostAppend == Len(csv) = n_recorded

\* C8: a PENDING row whose fetch returned no data, or no candle touching TGT or
\* SL, is left as it was, PENDING with every field unchanged, by the scan and
\* by the write that ends the pass.
C8_UntouchedStaysPending ==
    /\ []((LastScan /\ FirstTouch(ScanRow, df_ohlc.candles) = 0)
            => ScanRow.status = "PENDING" /\ ScanRow = csv[df_ohlc.idx])
    /\ [][\A p \in Procs :
            (proc[p].pc = "upd_row" /\ proc'[p].pc # "upd_row")
                => \A i \in 1..Len(proc[p].df) :
                      proc[p].df[i].status = "PENDING"
                          => i <= Len(csv') /\ csv'[i] = to_csv(proc[p].df)[i]
                             /\ csv'[i] = csv[i]]_vars

\* two candles, neither touching a bound, have been scanned for a row
C8_Witness ==
    /\ LastScan
    /\ Len(df_ohlc.candles) = 2
    /\ FirstTouch(ScanRow, df_ohlc.candles) = 0
    /\ ScanRow.status = "PENDING"

\* the price ordering of a signal: below, entry, above
Ordered(g) ==
    /\ g.direction = "BUY" => (g.SL < g.entry /\ g.entry < g.TGT)
    /\ g.direction = "SELL" => (g.TGT < g.entry /\ g.entry < g.SL)

\* C9: every emitted signal and every recorded row, the latter after rounding
\* to 2 decimals, has SL < entry < TGT for BUY and TGT < entry < SL for SELL.
C9_PriceOrdering ==
    /\ det.out # NoSignal => Ordered(det.out)
    /\ det.row # NoSignal => Ordered(det.row)

\* C10 (its case): in intraday_check, swing_check and get_rsi_signal the BUY
\* and the SELL condition are never both true on a frame.
C10_ConditionsExclusive ==
    /\ ~(intraday_buy_cond(det.i) /\ intraday_sell_cond(det.i))
    /\ ~(swing_buy_cond(det.i) /\ swing_sell_cond(det.i))
    /\ ~(rsi_buy_cond(det.i) /\ rsi_sell_cond(det.i))

\* the crossover patterns in the words of the claim: previous at or before the
\* line, latest strictly past it, all four values defined
CrossUp(pf, ps, lf, ls) ==
    /\ pf # NaN /\ ps # NaN /\ lf # NaN /\ ls # NaN
    /\ pf <= ps /\ lf > ls

CrossDown(pf, ps, lf, ls) ==
    /\ pf # NaN /\ ps # NaN /\ lf # NaN /\ ls # NaN
    /\ pf >= ps /\ lf < ls

\* the frame with its EMA pair replaced by a plain upward (downward) crossing
CrossedUp(i) == [i EXCEPT !.pf = 90000, !.ps = 110000, !.lf = 110000, !.ls = 90000]
CrossedDown(i) == [i EXCEPT !.pf = 110000, !.ps = 90000, !.lf = 90000, !.ls = 110000]

\* C11: the crossover component of intraday_check and of get_rsi_signal is
\* true exactly when the previous candle is at or before the line (fast <= slow,
\* RSI <= threshold) and the latest is strictly past it; an exact touch on the
\* previous candle fires and a continuation never does.  Mirrored for SELL.
C11_CrossoverPairing ==
    LET i == det.i IN
    /\ intraday_buy_cond(i) <=>
           (CrossUp(i.pf, i.ps, i.lf, i.ls) /\ intraday_buy_cond(CrossedUp(i)))
    /\ intraday_sell_cond(i) <=>
           (CrossDown(i.pf, i.ps, i.lf, i.ls) /\ intraday_sell_cond(CrossedDown(i)))
    /\ det.fn = "intraday_check" =>
           /\ det.out.direction = "BUY" => CrossUp(i.pf, i.ps, i.lf, i.ls)
           /\ det.out.direction = "SELL" => CrossDown(i.pf, i.ps, i.lf, i.ls)
    /\ det.fn = "get_rsi_signal" =>
           /\ det.out.direction = "BUY" <=>
                  CrossUp(i.prsi, RSI_BUY_THRESHOLD, i.rsi, RSI_BUY_THRESHOLD)
           /\ det.out.direction = "SELL" <=>
                  CrossDown(i.prsi, RSI_SELL_THRESHOLD, i.rsi, RSI_SELL_THRESHOLD)

\* an exact touch on the previous candle (EMA20 = EMA50) followed by a strict
\* crossing fires BUY
C11_Witness ==
    /\ det.fn = "intraday_check"
    /\ det.i.pf = det.i.ps /\ det.i.pf # NaN
    /\ det.out.direction = "BUY"

\* the last fully closed candle of a fetched series: the one before the last
LastClosed(frame) == frame.tail[Len(frame.tail) - 1]

\* C12: a detector that emits a signal took its entry price from the last
\* fully closed candle of the series, never from the most recent one.
C12_LastClosedCandle ==
    (det.fn \in {"intraday_check", "swing_check", "get_rsi_signal", "swing_rule_v4"}
        /\ det.out # NoSignal)
    => (det.frame.len >= 2 /\ det.out.entry = LastClosed(det.frame).close)

\* the shortest series on which a rule's slowest indicator is defined on both
\* candles of its crossover
MinHistory(fn) ==
    IF fn = "intraday_check" THEN 52
    ELSE IF fn = "swing_check" THEN 202
    ELSE 16

\* C16: on a series shorter than the rule's largest window plus the crossover
\* lookback a detector returns None and raises no error.
C16_ShortHistoryNoSignal ==
    (det.fn \in {"intraday_check", "swing_check", "get_signal_rsi_v8"}
        /\ det.frame.len < MinHistory(det.fn))
    => (det.out = NoSignal /\ ~det.raised)

\* the rows main has recorded in its current cycle (after it returns: in its
\* last cycle), new_signals_count of them at the end of the ledger
CycleRows == SubSeq(csv, Len(csv) - proc["p1"].new_signals_count + 1, Len(csv))

\* C13: within one cycle of main at most one row is recorded for a
\* (symbol, strategy) pair.
C13_OneRowPerKeyPerCycle ==
    /\ proc["p1"].new_signals_count <= Len(csv)
    /\ \A a, b \in 1..Len(CycleRows) :
          (CycleRows[a].symbol = CycleRows[b].symbol
              /\ CycleRows[a].strategy = CycleRows[b].strategy) => a = b

\* a cycle that recorded two signals and went through the whole universe
C13_Witness ==
    /\ proc["p1"].new_signals_count = 2
    /\ proc["p1"].pc = "finish"
    /\ CycleRows[1].symbol = CycleRows[2].symbol

\* C14: a record_signal call that returns leaves the ledger as it was before
\* the call with exactly one new PENDING row at its end; no existing row is
\* removed, moved or changed.
C14_RecordIsAppend ==
    [][n_recorded' # n_recorded =>
          /\ Len(csv') = Len(csv) + 1
          /\ SubSeq(csv', 1, Len(csv)) = csv
          /\ csv'[Len(csv')].status = "PENDING"]_vars

\* a row recorded behind a row that is already resolved
C14_Witness ==
    /\ n_recorded = 2
    /\ Len(csv) = 2
    /\ csv[1].status = "TGT"
    /\ csv[2].status = "PENDING"

\* C15: a row written to a log file in one cycle is still in that file after
\* every later cycle of a script that writes the file, also a cycle that
\* finds no signal.
C15_LogIsDurable ==
    [][\A f \in LogFiles : \A k \in 1..Len(logs[f]) :
          \E j \in 1..Len(logs'[f]) : logs'[f][j] = logs[f][k]]_vars

\* x is wins / total x 100 rounded to 2 decimals, in hundredths of a percent
IsPct(x, wins, total) ==
    LET d == x * total - 10000 * wins IN
    x # NaN /\ 2 * (IF d < 0 THEN 0 - d ELSE d) <= total

\* the resolved rows of the ledger within the time window that the function
\* matches with its arguments
MatchedResolved ==
    {k \in 1..Len(csv) :
        /\ csv[k].symbol = stat.symbol /\ csv[k].direction = stat.direction
        /\ csv[k].timestamp >= clock - 365
        /\ csv[k].status \in {"TGT", "SL"}}

\* C18: compute_historical_confidence returns None below 5 matching resolved
\* rows and otherwise wins / resolved x 100 rounded to 2 decimals; PENDING
\* rows count neither as wins nor as resolved.
C18_ConfidenceThreshold ==
    stat.fn = "compute_historical_confidence" =>
        LET n    == Cardinality(MatchedResolved)
            wins == Cardinality({k \in MatchedResolved : csv[k].status = "TGT"})
        IN  IF n < 5 THEN stat.winpct = NaN ELSE IsPct(stat.winpct, wins, n)

\* 5 resolved rows with 3 TGT give 60.0
C18_Witness ==
    /\ stat.fn = "compute_historical_confidence"
    /\ Cardinality(MatchedResolved) = 5
    /\ Cardinality({k \in MatchedResolved : csv[k].status = "TGT"}) = 3
    /\ stat.winpct = 6000

\* the matched rows that also have the strategy of the new signal
FullKeyResolved == {k \in MatchedResolved : csv[k].strategy = stat.strategy}

\* C19: the win rate attached to a new signal is computed from the resolved
\* rows of its full key only: same symbol, direction and strategy.
C19_FullKeyOnly ==
    stat.fn = "compute_historical_confidence" =>
        LET n    == Cardinality(FullKeyResolved)
            wins == Cardinality({k \in FullKeyResolved : csv[k].status = "TGT"})
        IN  IF n < 5 THEN stat.winpct = NaN ELSE IsPct(stat.winpct, wins, n)

\* C20: the cycle summary has accuracy = won / (won + lost) x 100 rounded to 2
\* decimals and total = won + lost + pending.
C20_SummaryAccuracy ==
    stat.fn \in {"compute_accuracy", "compute_overall_accuracy_summary"} =>
        /\ stat.total = stat.achieved + stat.failed + stat.pending
        /\ IF stat.achieved + stat.failed = 0 THEN stat.accuracy = 0
           ELSE IsPct(stat.accuracy, stat.achieved, stat.achieved + stat.failed)

\* the indicator values the entry condition of a detector of
\* nifty50_signals_final.py depends on
RuleIndicators(fn, i) ==
    {i.pf, i.ps, i.lf, i.ls, i.rsi, i.atr, i.adx, i.vol_avg}
    \cup (IF fn = "intraday_check" THEN {i.vwap} ELSE {})

\* C17: when an indicator the entry condition depends on is undefined (NaN) at
\* the evaluated candle, the detector emits no signal; an undefined volume
\* average does not pass the volume test.
C17_UndefinedNeverPasses ==
    (det.fn \in {"intraday_check", "swing_check"} /\ NaN \in RuleIndicators(det.fn, det.i))
        => det.out = NoSignal

\* the symbols main's loop has begun an iteration for in this cycle, in
\* order: each iteration begins with the intraday call
RECURSIVE Iterations(_)
Iterations(evals) ==
    IF evals = << >> THEN << >>
    ELSE IF Head(evals).strategy = "INTRADAY"
    THEN <<Head(evals).symbol>> \o Iterations(Tail(evals))
    ELSE Iterations(Tail(evals))

\* a detector call that ended without data or with an exception
Failed == {"no data", "raised"}

InSession(now_utc) ==
    /\ now_utc.wd \in 0..4
    /\ At(now_utc.wd, 3, 45, 0).s <= now_utc.s
    /\ now_utc.s <= At(now_utc.wd, 10, 0, 0).s

\* how often main did what in its cycle
Count(phases, what) == Len(SelectSeq(phases, LAMBDA ph : ph = what))

\* C22: main of nifty50_signals_final.py passes its gate exactly when it is
\* started on a weekday between 09:15 and 15:30 IST; a run stopped at the gate
\* changes no ledger row, records no signal and sends no message; a run that
\* passed the gate sends a message if and only if it recorded a signal, and
\* never more than one.
C22_MarketGate ==
    /\ [](proc["p1"].gate # "" =>
            (proc["p1"].gate = "open" <=> InSession(proc["p1"].now)))
    /\ [](proc["p1"].gate = "closed" =>
            /\ proc["p1"].pc = "idle"
            /\ proc["p1"].sent = 0 /\ proc["p1"].msg = NoMessage
            /\ proc["p1"].new_signals_count = 0 /\ proc["p1"].phases = << >>)
    /\ [][proc'["p1"].gate = "closed" =>
             csv' = csv /\ csv_exists' = csv_exists /\ n_recorded' = n_recorded]_vars
    /\ [](proc["p1"].gate = "open" /\ proc["p1"].pc = "idle" =>
            /\ Count(proc["p1"].phases, "send") = proc["p1"].sent
            /\ proc["p1"].sent <= 1
            /\ (proc["p1"].sent = 1 <=> Count(proc["p1"].phases, "record") >= 1)
            /\ (proc["p1"].sent = 1 <=> proc["p1"].msg # NoMessage))

\* a run started one second after 15:30 IST on a Friday, stopped at the gate
\* with a PENDING row in the ledger
C22_Witness ==
    /\ proc["p1"].gate = "closed"
    /\ proc["p1"].now = At(4, 10, 0, 1)
    /\ \E k \in 1..Len(csv) : csv[k].status = "PENDING"

\* C23: a signal is created once: cycles that run in the same candle period
\* see the same closed candles of a symbol, and the condition they detect on
\* them gives one ledger row for the symbol and strategy, not one for each
\* cycle.
C23_CreatedOnce ==
    \A a, b \in 1..Len(csv) :
        (SameSignal(csv[a], csv[b]) /\ csv[a].entry = csv[b].entry) => a = b

\* a pass of update_pending_signals of invocation p ends in this step
PassEnds(p) ==
    /\ proc[p].pc \in {"upd_read", "upd_row"}
    /\ proc'[p].pc \notin {"upd_read", "upd_row"}

\* C24: a pass of update_pending_signals examines every row that is PENDING
\* when it starts, and every such row whose fetched frame has a candle
\* reaching its target or its stop is no longer PENDING in the file when the
\* pass ends, whatever the other rows and their fetches are.
C24_NoPendingRowStarved ==
    [][PassEnds("p1") =>
          \A i \in 1..Len(csv) :
              csv[i].status = "PENDING" =>
                  /\ i \in proc["p1"].examined
                  /\ i \in proc["p1"].touched =>
                        (i <= Len(csv') /\ csv'[i].status # "PENDING")]_vars

\* a pass over two PENDING rows at its end: the fetch for the first row had a
\* candle reaching a bound, the fetch for the second returned no data
C24_Witness ==
    /\ proc["p1"].pc = "upd_row" /\ proc["p1"].pending = << >>
    /\ proc["p1"].examined = {1, 2}
    /\ proc["p1"].touched = {1}
    /\ df_ohlc.idx = 2 /\ df_ohlc.candles = << >>

\* the place of a phase in the order the claim gives
Rank(ph) ==
    CASE ph = "update 1" -> 1
      [] ph \in {"detect", "record"} -> 2
      [] ph = "update 2" -> 3
      [] ph = "accuracy" -> 4
      [] ph = "send" -> 5

\* the rows of the ledger with a status
WithStatus(st) == {i \in 1..Len(csv) : csv[i].status = st}

\* C25: in a cycle of main the first update_pending_signals pass is over
\* before any detector call or record_signal, the second pass begins after the
\* last record_signal, and the accuracy figures of the message are computed
\* after the second pass: they count the ledger as that pass left it, the
\* rows recorded in this cycle included.
C25_PhaseOrder ==
    LET r  == proc["p1"]
        ph == r.phases
    IN
    /\ \A j, k \in 1..Len(ph) : j < k => Rank(ph[j]) <= Rank(ph[k])
    /\ Count(ph, "update 1") <= 1 /\ Count(ph, "update 2") <= 1
    /\ Count(ph, "detect") + Count(ph, "record") >= 1 => ph[1] = "update 1"
    /\ Count(ph, "accuracy") >= 1 => Count(ph, "update 2") = 1
    /\ r.msg.kind = "signals" =>
          /\ Count(ph, "send") = 1
          /\ r.msg.signals = Count(ph, "record")
          /\ r.msg.summary.total = Len(csv)
          /\ r.msg.summary.total >= r.msg.signals
          /\ r.msg.summary.achieved = Cardinality(WithStatus("TGT"))
          /\ r.msg.summary.failed = Cardinality(WithStatus("SL"))

\* a cycle that has sent its message: a row it recorded was resolved by its
\* second update and is counted as achieved
C25_Witness ==
    /\ proc["p1"].msg.kind = "signals"
    /\ proc["p1"].msg.summary.achieved >= 1
    /\ \E j \in 1..Len(CycleRows) : CycleRows[j].status = "TGT"

\* C26: intraday_check and swing_check return a signal only when the ATR of
\* the evaluated candle is defined and above 0; its entry is that candle's
\* close, its stop lies 1.2 ATR and its target 2.5 ATR from the entry, below
\* and above for BUY, above and below for SELL; with the ATR undefined or not
\* above 0 they return None, also when the entry condition holds.
C26_AtrSizing ==
    det.fn \in {"intraday_check", "swing_check"} =>
        LET i == det.i
            g == det.out
        IN
        /\ (i.atr = NaN \/ i.atr <= 0) => g = NoSignal
        /\ g # NoSignal =>
              /\ i.atr # NaN /\ i.atr > 0
              /\ g.entry = i.price
              /\ g.direction = "BUY" =>
                    /\ 10 * (g.entry - g.SL) = 12 * i.atr
                    /\ 10 * (g.TGT - g.entry) = 25 * i.atr
              /\ g.direction = "SELL" =>
                    /\ 10 * (g.SL - g.entry) = 12 * i.atr
                    /\ 10 * (g.entry - g.TGT) = 25 * i.atr

\* swing_check has returned a SELL signal sized from an ATR of 0.001
C26_Witness ==
    /\ det.fn = "swing_check"
    /\ det.out.direction = "SELL"
    /\ det.i.atr = 10

\* C27: the outcome of the resolution scan is stable when the frame grows: a
\* scan that gives TGT or SL on a frame gives the same on that frame followed
\* by later candles; later candles only turn "no hit" into a hit.
C27_StableUnderExtension ==
    det.fn = "scan_hit" =>
        /\ det.hits[1] \in {"TGT", "SL"} => det.hits[2] = det.hits[1]
        /\ det.hits[2] = "NONE" => det.hits[1] = "NONE"

\* the frame gives SL, and the candles that follow it reach the target
C27_Witness ==
    /\ det.fn = "scan_hit"
    /\ det.hits = <<"SL", "SL">>
    /\ \E k \in DOMAIN det.i.x : TouchesTGT(det.i.row, det.i.x[k])

\* what a signal is: every field of a row but its resolution
SameFields(a, b) ==
    /\ a.timestamp = b.timestamp /\ a.symbol = b.symbol /\ a.strategy = b.strategy
    /\ a.direction = b.direction /\ a.entry = b.entry /\ a.SL = b.SL /\ a.TGT = b.TGT

\* C28: a pass of update_pending_signals writes the file only at its end, and
\* then it changes nothing but the status (in nifty_banknifty_signals.py also
\* resolved_at and result) of rows that were PENDING and are now resolved:
\* the other fields of every row, every field of a row that was TGT or SL or
\* stays PENDING, and the number and order of the rows stay as they were.
C28_ResolutionFrame ==
    [][proc["p1"].pc \in {"upd_read", "upd_row"} =>
          IF PassEnds("p1")
          THEN /\ Len(csv') = Len(csv)
               /\ \A i \in 1..Len(csv) :
                     /\ SameFields(csv'[i], csv[i])
                     /\ csv[i].status # "PENDING" => csv'[i] = csv[i]
                     /\ csv'[i].status = csv[i].status => csv'[i] = csv[i]
                     /\ proc["p1"].script = "final" =>
                           /\ csv'[i].resolved_at = csv[i].resolved_at
                           /\ csv'[i].result = csv[i].result
          ELSE csv' = csv]_vars

\* the first pass of a cycle of nifty_banknifty_signals.py has ended at time
\* 1: the second row is resolved at that time, the first was resolved at
\* time 0
C28_Witness ==
    /\ proc["p1"].phases = <<"update 1">>
    /\ proc["p1"].script = "bn"
    /\ clock = 1 /\ Len(csv) = 2
    /\ csv[1].status = "TGT" /\ csv[1].resolved_at = <<0>>
    /\ csv[2].status = "SL" /\ csv[2].resolved_at = <<1>>

\* C29: in a ledger written by nifty_banknifty_signals.py alone every row has
\* status TGT exactly when its result is WIN, status SL exactly when its
\* result is LOSS, and status PENDING exactly when resolved_at and result are
\* both empty.
C29_ResolutionFieldsAgree ==
    \A i \in 1..Len(csv) :
        /\ csv[i].status = "TGT" <=> csv[i].result = "WIN"
        /\ csv[i].status = "SL" <=> csv[i].result = "LOSS"
        /\ csv[i].status = "PENDING" <=>
               (csv[i].resolved_at = << >> /\ csv[i].result = "")

\* a ledger with a row resolved as a win at time 0 and a row resolved as a
\* loss at time 1
C29_Witness ==
    /\ Len(csv) = 2
    /\ csv[1].result = "WIN" /\ csv[1].resolved_at = <<0>>
    /\ csv[2].result = "LOSS" /\ csv[2].resolved_at = <<1>>

\* the log of nifty_banknifty_signals_rsi_v8.py
RsiLog == logs["signal_log_v8.csv"]

\* C30: with nifty_banknifty_signals_rsi_v8.py the only writer of its log, every
\* row of the log has status PENDING and an empty result, no step changes or
\* removes a row that is in the log, and every signal message of every cycle
\* carries no win rate and reads "Insufficient data".
C30_RowsStayPending ==
    /\ [](\A k \in 1..Len(RsiLog) :
              RsiLog[k].status = "PENDING" /\ RsiLog[k].result = "")
    /\ [][/\ Len(logs'["signal_log_v8.csv"]) >= Len(RsiLog)
          /\ \A k \in 1..Len(RsiLog) : logs'["signal_log_v8.csv"][k] = RsiLog[k]]_vars
    /\ [](\A j \in 1..Len(stat.messages) :
              stat.messages[j].kind = "signal"
                  => /\ stat.messages[j].win_pct = NaN
                     /\ stat.messages[j].win_text = "Insufficient data")

\* a sixth signal of one stock, sent when five rows of that stock and trade
\* type are in the log already
C30_Witness ==
    /\ Len(RsiLog) = MinResolved + 1
    /\ \A k \in 1..Len(RsiLog) :
           RsiLog[k].stock = "RELIANCE.NS" /\ RsiLog[k].trade_type = "RSI"
    /\ stat.fn = "main"
    /\ Len(stat.messages) = 2
    /\ stat.messages[2].kind = "signal"
    /\ stat.messages[2].stock = "RELIANCE.NS"
====
